---- MODULE Spec2Model ----
(***************************************************************************)
(* A model of synthetic_data_generator.py: the synthesis of one literal    *)
(* per column (random_value), the assembly of CREATE TABLE and INSERT      *)
(* statements (create_statement, insert_statement) and the streaming of    *)
(* both to the output (stream_create_statements, stream_insert_statements, *)
(* the stand-alone part).                                                  *)
(*                                                                         *)
(* Python values are modelled as follows.                                  *)
(*   Optional[int]      <<>> for None, <<n>> for the integer n             *)
(*   str                a TLA+ string                                      *)
(*   a returned value   [t, i, s]: an int i, a str s, or the float i/50    *)
(*   a probability      an integer number of hundredths (0.2 is 20)        *)
(***************************************************************************)
EXTENDS Integers, Sequences, FiniteSets, TLC

VARIABLES
    config,             \* the module-level settings read from the environment
    table_definitions,  \* _table_definitions: the tables in catalog order
    primary_keys,       \* _primary_keys: table name -> None or column list
    number_of_rows,     \* _number_of_rows_per_table: table name -> row count
    output,             \* what OUTPUT_STREAM has received, oldest first
    pc,                 \* where the stand-alone part is
    ti,                 \* position of the loop over the tables
    pos,                \* iterations of range(_rows_per_table) consumed
    pk_set,             \* _pk_set of the table being generated
    collisions,         \* per table: iterations that ended at line 422
    rv,                 \* the last synthesis of one column value
    cs                  \* the last call of create_statement

vars == <<config, table_definitions, primary_keys, number_of_rows, output,
          pc, ti, pos, pk_set, collisions, rv, cs>>

-----------------------------------------------------------------------------
(* Bounds of the model *)

\* random draws are taken from 0..MaxDraw (and the top of the range)
MaxDraw == 1
\* how many characters of the alphabet the generated strings use
AlphabetSize == 2
\* the largest requested row count of a table
MaxRequestedRows == 3
\* the largest MAX_STRING_SIZE and MAX_BINARY_ARRAY_SIZE configured
MaxSize == 2
\* the largest INTEGER_MAXIMUM configured
MaxIntegerMaximum == 2

-----------------------------------------------------------------------------
(* Python values *)

None == <<>>
Some(n) == <<n>>
IsNone(o) == o = <<>>
Val(o) == o[1]

Min(a, b) == IF a <= b THEN a ELSE b

PyInt(n) == [t |-> "int", i |-> n, s |-> ""]
PyStr(s) == [t |-> "str", i |-> 0, s |-> s]
\* the float k / 50
PyFloat50(k) == [t |-> "float", i |-> k, s |-> ""]

\* f"{n:02}"
Pad2(n) == IF n < 10 THEN "0" \o ToString(n) ELSE ToString(n)

\* str(k / 50): the shortest decimal text of a multiple of 0.02
FloatText(k) ==
    LET h == 2 * k
        whole == h \div 100
        frac == h % 100
    IN  IF frac % 10 = 0
        THEN ToString(whole) \o "." \o ToString(frac \div 10)
        ELSE ToString(whole) \o "." \o Pad2(frac)

\* str(value)
Str(v) ==
    CASE v.t = "int" -> ToString(v.i)
      [] v.t = "str" -> v.s
      [] v.t = "float" -> FloatText(v.i)

\* str(max_length), as an f-string renders an Optional[int] or "max"
StrOpt(o) == IF IsNone(o) THEN "None" ELSE ToString(Val(o))

pad_string_by_apostrophes(input_string) == "'" \o input_string \o "'"

-----------------------------------------------------------------------------
(* Sources of randomness *)

\* the first characters of string.ascii_letters + string.digits
Letters == <<"a", "b", "c", "d", "e", "f", "g", "h">>
alphabet == {Letters[i] : i \in 1..AlphabetSize}

\* secrets.randbelow(n): 0 <= k < n, sampled at the low end and at the top
RandBelow(n) == {k \in 0..(n - 1) : k <= MaxDraw \/ k = n - 1}

RECURSIVE Pow2(_)
Pow2(k) == IF k = 0 THEN 1 ELSE 2 * Pow2(k - 1)

\* secrets.randbits(k)
RandBits(k) == RandBelow(Pow2(k))

\* "".join(secrets.choice(alphabet) for _ in range(n))
RECURSIVE RandomStrings(_)
RandomStrings(n) ==
    IF n <= 0 THEN {""}
    ELSE {s \o c : s \in RandomStrings(n - 1), c \in alphabet}

\* str(uuid.uuid4()): two of the random UUIDs
Uuid4 == {"0e4b7a52-6f0c-4d1e-9b7a-3c5d2f1a8e90",
          "c1a9e3d4-2b7f-4a60-8d15-7e9f0b3c6a21"}

\* secrets.SystemRandom().uniform(0, 1), in hundredths
UniformDraws == {0, 20, 50, 100}

-----------------------------------------------------------------------------
(* random_value *)

Raise == [raised |-> TRUE, value |-> PyStr("")]
Return(v) == [raised |-> FALSE, value |-> v]

DateTexts ==
    {ToString(1970 + y) \o "-" \o Pad2(1 + m) \o "-" \o Pad2(1 + d) :
        y \in RandBelow(60), m \in RandBelow(12), d \in RandBelow(27)}

TimeTexts ==
    {Pad2(h) \o ":" \o Pad2(m) \o ":" \o Pad2(s) :
        h \in RandBelow(24), m \in RandBelow(60), s \in RandBelow(60)}

\* the type names random_value matches
SupportedTypes ==
    {"bit", "char", "varchar", "text", "nchar", "nvarchar", "ntext",
     "bigint", "numeric", "decimal", "int", "smallint", "tinyint", "float",
     "varbinary", "binary", "date", "datetime", "datetime2", "time",
     "timestamp", "uniqueidentifier"}

\* other spellings of supported names, and names of no supported type
OtherSpellings == {"INT", "Int", "BIT", "VarChar", "DATE", "Timestamp"}
UnsupportedTypes == {"xml", "money", "geography", ""}

\* str.lower() of the type names above
Lower(name) ==
    CASE name \in {"INT", "Int"} -> "int"
      [] name = "BIT" -> "bit"
      [] name = "VarChar" -> "varchar"
      [] name = "DATE" -> "date"
      [] name = "Timestamp" -> "timestamp"
      [] OTHER -> name

\* (mutant) the subject lower-cased first: match data_type.lower()
MatchSubject_Lower(data_type) == Lower(data_type)

\* "match data_type:" the text the case patterns are compared with
MatchSubject(data_type) == data_type

\* the match statement: the values a data type can get, {} when no case matches
MatchDataType(data_type_arg, str_size, bin_size, int_max) ==
  LET data_type == MatchSubject(data_type_arg) IN
    CASE data_type = "bit" -> {PyInt(b) : b \in RandBits(1)}
      [] data_type \in {"char", "varchar", "text", "nchar", "nvarchar", "ntext"} ->
            {PyStr(pad_string_by_apostrophes(s)) : s \in RandomStrings(str_size)}
      [] data_type \in {"bigint", "numeric", "decimal", "int"} ->
            {PyInt(k) : k \in RandBelow(int_max)}
      [] data_type = "smallint" ->
            {PyInt(k) : k \in RandBelow(Min(32767, int_max))}
      [] data_type = "tinyint" ->
            {PyInt(k) : k \in RandBelow(Min(256, int_max))}
      [] data_type = "float" ->
            {PyFloat50(k) : k \in RandBelow(Min(256, int_max))}
      [] data_type \in {"varbinary", "binary"} ->
            {PyStr("CAST(" \o ToString(b) \o " AS BINARY(" \o ToString(bin_size) \o "))") :
                b \in RandBits(bin_size)}
      [] data_type = "date" ->
            {PyStr(pad_string_by_apostrophes(d)) : d \in DateTexts}
      [] data_type \in {"datetime", "datetime2"} ->
            {PyStr(pad_string_by_apostrophes(d \o " " \o t)) :
                d \in DateTexts, t \in TimeTexts}
      [] data_type = "time" ->
            {PyStr(pad_string_by_apostrophes(t)) : t \in TimeTexts}
      [] data_type = "timestamp" -> {PyStr("DEFAULT")}
      [] data_type = "uniqueidentifier" ->
            {PyStr("CONVERT(uniqueidentifier, " \o pad_string_by_apostrophes(u) \o ")") :
                u \in Uuid4}
      [] OTHER -> {}

\* "if null_probability:" a float that is neither None nor 0.0
Truthy(null_probability) ==
    ~IsNone(null_probability) /\ Val(null_probability) # 0

\* (mutant) the draw compared with < instead of <=
ReturnsNull_Strict(null_probability, u) ==
    ~IsNone(null_probability) /\ Val(null_probability) # 0
    /\ u < Val(null_probability)

\* whether lines 189-192 return "NULL", u being the uniform draw
ReturnsNull(null_probability, u) ==
    Truthy(null_probability) /\ u <= Val(null_probability)

\* the results random_value can have when the uniform draw, if taken, is u
random_value(data_type, str_size, bin_size, int_max, null_probability, u) ==
    IF ReturnsNull(null_probability, u)
    THEN {Return(PyStr("NULL"))}
    ELSE LET vs == MatchDataType(data_type, str_size, bin_size, int_max)
         IN  IF vs = {} THEN {Raise} ELSE {Return(v) : v \in vs}

-----------------------------------------------------------------------------
(* insert_statement *)

Column(name, data_type, is_nullable, max_length) ==
    [name |-> name, data_type |-> data_type, is_nullable |-> is_nullable,
     max_length |-> max_length]

\* lines 327-332: the string size handed to random_value
StrMaxSize(col_def, str_max_size) ==
    IF ~IsNone(col_def.max_length) /\ Val(col_def.max_length) >= 0
    THEN Min(str_max_size, Val(col_def.max_length))
    ELSE str_max_size

\* lines 327-332: the binary size handed to random_value
BinMaxSize(col_def, bin_max_size) ==
    IF ~IsNone(col_def.max_length) /\ Val(col_def.max_length) >= 0
    THEN Min(bin_max_size, Val(col_def.max_length))
    ELSE bin_max_size

\* line 341: NULL_PROBABILITY if _col_def["is_nullable"] else None
NullProbabilityArg(col_def, cfg) ==
    IF col_def.is_nullable THEN Some(cfg.NULL_PROBABILITY) ELSE None

\* lines 335-343 for one column and one uniform draw u
ColumnResults(col_def, cfg, u) ==
    random_value(col_def.data_type,
                 StrMaxSize(col_def, cfg.MAX_STRING_SIZE),
                 BinMaxSize(col_def, cfg.MAX_BINARY_ARRAY_SIZE),
                 cfg.INTEGER_MAXIMUM,
                 NullProbabilityArg(col_def, cfg), u)

\* ",".join(texts)
RECURSIVE Join(_)
Join(texts) ==
    IF texts = <<>> THEN ""
    ELSE IF Len(texts) = 1 THEN texts[1]
    ELSE texts[1] \o "," \o Join(Tail(texts))

RowRaise == [raised |-> TRUE, values |-> <<>>]

\* the loop of lines 324-343: the texts of the columns in definition order,
\* or the exception of the first column whose synthesis raises
RECURSIVE RowValues(_, _)
RowValues(cols, cfg) ==
    IF cols = <<>> THEN {[raised |-> FALSE, values |-> <<>>]}
    ELSE UNION {
            IF h.raised THEN {RowRaise}
            ELSE {IF r.raised THEN RowRaise
                  ELSE [raised |-> FALSE, values |-> <<Str(h.value)>> \o r.values] :
                    r \in RowValues(Tail(cols), cfg)} :
            h \in UNION {ColumnResults(Head(cols), cfg, u) : u \in UniformDraws}}

\* line 344
InsertText(table_name, values) ==
    "INSERT INTO " \o table_name \o " VALUES(" \o Join(values) \o ")"

\* insert_statement: (_values, statement) or the exception
insert_statement(table_name, table_def, cfg) ==
    {IF r.raised THEN [raised |-> TRUE, values |-> <<>>, stmt |-> ""]
     ELSE [raised |-> FALSE, values |-> r.values,
           stmt |-> InsertText(table_name, r.values)] :
        r \in RowValues(table_def, cfg)}

-----------------------------------------------------------------------------
(* Synthesis of single values: random_value as insert_statement calls it *)

ValueTypes == SupportedTypes \cup OtherSpellings \cup UnsupportedTypes

ValueMaxLengths == {None, Some(-1), Some(0), Some(1)}

Config(create, insert, max_rows, str_size, bin_size, int_max, null_prob) ==
    [GENERATE_CREATE_STATEMENTS |-> create,
     GENERATE_INSERT_STATEMENTS |-> insert,
     MAX_ROWS_PER_TABLE |-> max_rows,
     MAX_STRING_SIZE |-> str_size,
     MAX_BINARY_ARRAY_SIZE |-> bin_size,
     INTEGER_MAXIMUM |-> int_max,
     NULL_PROBABILITY |-> null_prob]

\* NULL_PROBABILITY, in hundredths
NullProbabilities == {0, 20, 100}

NoCall == [called |-> FALSE]

Idle ==
    /\ table_definitions = <<>>
    /\ primary_keys = <<>>
    /\ number_of_rows = <<>>
    /\ output = <<>>
    /\ pc = "idle"
    /\ ti = 0
    /\ pos = 0
    /\ pk_set = {}
    /\ collisions = <<>>

ValueColumns ==
    {Column("c", data_type, is_nullable, max_length) :
        data_type \in ValueTypes, is_nullable \in BOOLEAN,
        max_length \in ValueMaxLengths}

InitValue ==
    /\ Idle
    /\ config \in {Config(TRUE, TRUE, None, MaxSize, MaxSize, MaxIntegerMaximum, p) :
                     p \in NullProbabilities}
    /\ rv \in {[called |-> FALSE, col_def |-> c, draw |-> 0,
                null_probability |-> None, raised |-> FALSE, text |-> ""] :
                 c \in ValueColumns}
    /\ cs = NoCall

\* one column of insert_statement's loop: lines 327-343
SynthesizeValue ==
    /\ ~rv.called
    /\ \E u \in UniformDraws :
         \E r \in ColumnResults(rv.col_def, config, u) :
            rv' = [rv EXCEPT !.called = TRUE, !.draw = u,
                     !.null_probability = NullProbabilityArg(rv.col_def, config),
                     !.raised = r.raised,
                     !.text = IF r.raised THEN "" ELSE Str(r.value)]
    /\ UNCHANGED <<config, table_definitions, primary_keys, number_of_rows,
                   output, pc, ti, pos, pk_set, collisions, cs>>

NextValue == SynthesizeValue

SpecValue == InitValue /\ [][NextValue]_vars

-----------------------------------------------------------------------------
(* Claims about the synthesis of single values, under SpecValue *)

\* the column is nullable, the null probability is not zero and the uniform
\* draw is at most the probability
NullCase ==
    /\ rv.col_def.is_nullable
    /\ config.NULL_PROBABILITY # 0
    /\ rv.draw <= config.NULL_PROBABILITY

\* C5: for every data type name outside the supported set random_value
\* raises and produces no value, whatever the null probability and the draw.
C5_UnsupportedTypeAlwaysRaises ==
    (rv.called /\ Lower(rv.col_def.data_type) \notin SupportedTypes)
        => (rv.raised /\ rv.text = "")

\* C6: for every supported data type the synthesized value is the NULL
\* marker exactly when the column is nullable, the null probability is not
\* zero and the uniform draw is at most the probability; so never for a
\* column that is not nullable, never with probability 0.0 and always with
\* probability 1.0 for a nullable column.
C6_NullExactlyWhenDrawn ==
    (rv.called /\ rv.col_def.data_type \in SupportedTypes) =>
        /\ ~rv.raised
        /\ (rv.text = "NULL") <=> NullCase
        /\ ~rv.col_def.is_nullable => rv.text # "NULL"
        /\ config.NULL_PROBABILITY = 0 => rv.text # "NULL"
        /\ (rv.col_def.is_nullable /\ config.NULL_PROBABILITY = 100)
              => rv.text = "NULL"

\* a nullable int column gets NULL on a draw equal to the probability
C6_Witness ==
    /\ rv.called
    /\ rv.col_def.data_type = "int"
    /\ rv.col_def.is_nullable
    /\ config.NULL_PROBABILITY = 20
    /\ rv.draw = 20
    /\ rv.text = "NULL"

\* C8 as stated: every upper/lower-case spelling of a supported type name is
\* accepted, none raises the unsupported-type error.
C8_CaseInsensitiveMatch ==
    (rv.called /\ Lower(rv.col_def.data_type) \in SupportedTypes)
        => ~rv.raised

\* C8 amended: the match is case-sensitive. A supported name in lower case
\* never raises; any other spelling of a supported name raises the
\* unsupported-type error, unless NULL is returned before the match.
C8_CaseSensitiveMatch ==
    rv.called =>
        /\ rv.col_def.data_type \in SupportedTypes => ~rv.raised
        /\ (/\ rv.col_def.data_type \notin SupportedTypes
            /\ Lower(rv.col_def.data_type) \in SupportedTypes)
              => /\ rv.raised <=> ~NullCase
                 /\ ~rv.raised => rv.text = "NULL"

\* 'INT' for a column that is not nullable raises
C8_Witness ==
    /\ rv.called
    /\ rv.col_def.data_type = "INT"
    /\ ~rv.col_def.is_nullable
    /\ rv.raised

-----------------------------------------------------------------------------
(* create_statement *)

\* a table of the catalog: generate_table_definitions keys it by
\* TABLE_SCHEMA.TABLE_NAME and keeps its columns in the order of the rows
Table(schema, table, cols) ==
    [schema |-> schema, table |-> table, name |-> schema \o "." \o table,
     cols |-> cols]

\* values of the primary-key map: None (JSON null) or a list of column names
PkNone == [is_none |-> TRUE, cols |-> <<>>]
PkList(cols) == [is_none |-> FALSE, cols |-> cols]

\* (mutant) the sentinel test written <= 0
MaxLengthText_ZeroIsMax(col_def) ==
    IF ~IsNone(col_def.max_length) /\ Val(col_def.max_length) <= 0
    THEN "max"
    ELSE StrOpt(col_def.max_length)

\* lines 263-266: _max_length as the f-string renders it
MaxLengthText(col_def) ==
    IF ~IsNone(col_def.max_length) /\ Val(col_def.max_length) < 0
    THEN "max"
    ELSE StrOpt(col_def.max_length)

\* lines 269-275: _data_type_def
DataTypeDef(col_def) ==
    CASE col_def.data_type \in {"char", "varchar", "nchar", "nvarchar"} ->
            col_def.data_type \o "(" \o MaxLengthText(col_def) \o ")"
      [] col_def.data_type \in {"varbinary", "binary"} ->
            col_def.data_type \o "(" \o MaxLengthText(col_def) \o ")"
      [] col_def.data_type = "bit" -> "BIT"
      [] OTHER -> col_def.data_type

\* lines 277-282: one entry of _column_definitions
ColumnDefinitionText(col_def) ==
    "[" \o col_def.name \o "] " \o DataTypeDef(col_def) \o " "
        \o (IF ~col_def.is_nullable THEN "NOT NULL" ELSE "")

\* lines 285-293: _primary_key; table_name.replace('.', '_') is schema_table
\* for a schema and a table name that hold no dot
PrimaryKeyText(table, pk) ==
    IF ~pk.is_none /\ pk.cols # <<>>
    THEN ", CONSTRAINT [PK_" \o table.schema \o "_" \o table.table
            \o "] PRIMARY KEY (" \o Join(pk.cols) \o ")"
    ELSE ""

\* create_statement
create_statement(table, pk) ==
    "CREATE TABLE " \o table.name \o " ("
        \o Join([i \in 1..Len(table.cols) |-> ColumnDefinitionText(table.cols[i])])
        \o PrimaryKeyText(table, pk) \o ")"

\* the data types of the CREATE calls checked
CreateTypes ==
    {"char", "varchar", "nchar", "nvarchar", "varbinary", "binary",
     "text", "ntext", "bit", "int", "float", "date", "uniqueidentifier", "xml"}

IdColumn == Column("Id", "int", FALSE, None)

CreateTables ==
    LET cs1 == {Column("c", data_type, is_nullable, max_length) :
                    data_type \in CreateTypes, is_nullable \in BOOLEAN,
                    max_length \in ValueMaxLengths}
    IN  {Table("dbo", "T", <<c>>) : c \in cs1}
            \cup {Table("dbo", "T", <<IdColumn, c>>) : c \in cs1}

InitCreate ==
    /\ Idle
    /\ config = Config(TRUE, TRUE, None, MaxSize, MaxSize, MaxIntegerMaximum, 0)
    /\ rv = NoCall
    /\ cs \in {[called |-> FALSE, table |-> t, pk |-> k,
                data_type_defs |-> <<>>, text |-> ""] :
                 t \in CreateTables,
                 k \in {PkNone, PkList(<<>>), PkList(<<"c">>)}}

\* one call of create_statement
CreateStatement ==
    /\ ~cs.called
    /\ cs' = [cs EXCEPT !.called = TRUE,
                !.data_type_defs =
                    [i \in 1..Len(cs.table.cols) |-> DataTypeDef(cs.table.cols[i])],
                !.text = create_statement(cs.table, cs.pk)]
    /\ UNCHANGED <<config, table_definitions, primary_keys, number_of_rows,
                   output, pc, ti, pos, pk_set, collisions, rv>>

NextCreate == CreateStatement

SpecCreate == InitCreate /\ [][NextCreate]_vars

\* C9: a length clause is appended only to the character-like and binary-like
\* types; for such a column the clause is (max) if and only if max_length is
\* negative, and a max_length that is a number >= 0 is the clause otherwise.
C9_LengthClause ==
    cs.called =>
        \A i \in 1..Len(cs.table.cols) :
            LET c == cs.table.cols[i]
                d == cs.data_type_defs[i]
                sentinel == ~IsNone(c.max_length) /\ Val(c.max_length) < 0
            IN  IF c.data_type \in {"char", "varchar", "nchar", "nvarchar",
                                    "varbinary", "binary"}
                THEN /\ (d = c.data_type \o "(max)") <=> sentinel
                     /\ (~IsNone(c.max_length) /\ ~sentinel) =>
                            d = c.data_type \o "(" \o ToString(Val(c.max_length)) \o ")"
                     /\ d # c.data_type
                ELSE d = c.data_type \/ (c.data_type = "bit" /\ d = "BIT")

\* varchar with max_length -1 is rendered varchar(max), binary with
\* max_length 1 is rendered binary(1)
C9_Witness ==
    /\ cs.called
    /\ \E i \in 1..Len(cs.table.cols) :
         /\ cs.table.cols[i].data_type = "varchar"
         /\ cs.table.cols[i].max_length = Some(-1)
         /\ cs.data_type_defs[i] = "varchar(max)"
         /\ cs.text = "CREATE TABLE dbo.T ([Id] int NOT NULL,[c] varchar(max) , CONSTRAINT [PK_dbo_T] PRIMARY KEY (c))"

-----------------------------------------------------------------------------
(* The stand-alone part: stream_create_statements, stream_insert_statements *)

Users == Table("dbo", "Users", <<Column("Id", "int", FALSE, None),
                                 Column("Name", "varchar", FALSE, Some(10))>>)
Flags == Table("dbo", "Flags", <<Column("Flag", "bit", TRUE, None)>>)
Docs == Table("app", "Docs", <<Column("Id", "tinyint", FALSE, None),
                               Column("Doc", "xml", TRUE, None)>>)

\* the catalogs generate_table_definitions is taken to have parsed
Catalogs == {<<Users, Flags>>, <<Flags, Docs>>, <<Docs, Users>>}

\* the entries the primary-key map can have for a table: None, its first
\* column, all its columns
PkEntries(table) ==
    {PkNone, PkList(<<table.cols[1].name>>),
     PkList([i \in 1..Len(table.cols) |-> table.cols[i].name])}

\* the primary-key maps over a catalog: any of its tables may have no entry
PrimaryKeyMaps(tables) ==
    LET names == {tables[i].name : i \in 1..Len(tables)}
        byName(n) == CHOOSE i \in 1..Len(tables) : tables[i].name = n
    IN  UNION {{f \in [keyed -> UNION {PkEntries(tables[i]) : i \in 1..Len(tables)}] :
                    \A n \in keyed : f[n] \in PkEntries(tables[byName(n)])} :
               keyed \in SUBSET names}

\* the settings of the runs checked; max_rows_per_table may be None for
\* stream_insert_statements
MainConfigs ==
    {Config(create, insert, max_rows, 0, 1, 2, null_prob) :
        create \in BOOLEAN, insert \in BOOLEAN,
        max_rows \in {None, Some(2)}, null_prob \in {0, 50}}

\* the state when the stand-alone part has loaded its inputs: every table of
\* the catalog has a row count, and the primary-key map names columns of the
\* table it is given for
Init ==
    /\ config \in MainConfigs
    /\ table_definitions \in Catalogs
    /\ primary_keys \in PrimaryKeyMaps(table_definitions)
    /\ number_of_rows \in
         [{table_definitions[i].name : i \in 1..Len(table_definitions)}
            -> 0..MaxRequestedRows]
    /\ output = <<>>
    /\ pc = "create"
    /\ ti = 1
    /\ pos = 0
    /\ pk_set = {}
    /\ collisions = [n \in {table_definitions[i].name : i \in 1..Len(table_definitions)} |-> 0]
    /\ rv = NoCall
    /\ cs = NoCall

\* (mutant) the tables taken in reverse order
TableOrder_Reversed(tables) ==
    [i \in 1..Len(tables) |-> tables[Len(tables) + 1 - i]]

\* lines 395 and 362: the order the loops take the tables in
TableOrder(tables) == tables

CurrentTable == TableOrder(table_definitions)[ti]

\* lines 364-366: the primary_keys argument of create_statement
CreatePrimaryKeys(table_name) ==
    IF table_name \in DOMAIN primary_keys THEN primary_keys[table_name]
    ELSE PkNone

\* (mutant) max_rows_per_table is not applied
RowsPerTable_Uncapped(table_name) == number_of_rows[table_name]

\* lines 399-403: _rows_per_table
RowsPerTable(table_name) ==
    IF ~IsNone(config.MAX_ROWS_PER_TABLE)
    THEN Min(Val(config.MAX_ROWS_PER_TABLE), number_of_rows[table_name])
    ELSE number_of_rows[table_name]

\* lines 415-419: tuple(_value)
KeyTuple(table, pk_cols, values) ==
    [k \in 1..Len(pk_cols) |->
        values[CHOOSE i \in 1..Len(table.cols) : table.cols[i].name = pk_cols[k]]]

\* (mutant) an entry that is None is not looked at
SkipsRow_Never(table_name) == FALSE

\* lines 414-417: the iteration is abandoned because the entry is None
SkipsRow(table_name) ==
    table_name \in DOMAIN primary_keys /\ primary_keys[table_name].is_none

\* (mutant) the key tuple is not added
PkSetAdd_Forgotten(set, value) == set

\* line 424: _pk_set.add(tuple(_value))
PkSetAdd(set, value) == set \cup {value}

Emitted(kind, table_name, key, text) ==
    [kind |-> kind, table |-> table_name, key |-> key, text |-> text \o ";\n"]

\* line 454 is false: no CREATE statement is streamed
SkipCreateStatements ==
    /\ pc = "create"
    /\ ~config.GENERATE_CREATE_STATEMENTS
    /\ pc' = "insert"
    /\ UNCHANGED <<config, table_definitions, primary_keys, number_of_rows,
                   output, ti, pos, pk_set, collisions, rv, cs>>

\* one iteration of stream_create_statements, lines 362-367
StreamCreateStatement ==
    /\ pc = "create"
    /\ config.GENERATE_CREATE_STATEMENTS
    /\ ti <= Len(table_definitions)
    /\ output' = Append(output,
            Emitted("CREATE", CurrentTable.name, <<>>,
                    create_statement(CurrentTable,
                                     CreatePrimaryKeys(CurrentTable.name))))
    /\ IF ti < Len(table_definitions)
       THEN ti' = ti + 1 /\ pc' = pc
       ELSE ti' = 1 /\ pc' = "insert"
    /\ UNCHANGED <<config, table_definitions, primary_keys, number_of_rows,
                   pos, pk_set, collisions, rv, cs>>

\* line 459 is false: no INSERT statement is streamed
SkipInsertStatements ==
    /\ pc = "insert"
    /\ ~config.GENERATE_INSERT_STATEMENTS
    /\ pc' = "done"
    /\ UNCHANGED <<config, table_definitions, primary_keys, number_of_rows,
                   output, ti, pos, pk_set, collisions, rv, cs>>

\* lines 395-403: the loop of stream_insert_statements takes the next table
BeginTable ==
    /\ pc = "insert"
    /\ config.GENERATE_INSERT_STATEMENTS
    /\ ti <= Len(table_definitions)
    /\ pk_set' = {}
    /\ pos' = 0
    /\ pc' = "rows"
    /\ UNCHANGED <<config, table_definitions, primary_keys, number_of_rows,
                   output, ti, collisions, rv, cs>>

\* lines 405-411: insert_statement raises NotImplementedError
RowRaises ==
    /\ pc = "rows"
    /\ pos < RowsPerTable(CurrentTable.name)
    /\ \E r \in insert_statement(CurrentTable.name, CurrentTable.cols, config) :
         r.raised
    /\ pc' = "raised"
    /\ UNCHANGED <<config, table_definitions, primary_keys, number_of_rows,
                   output, ti, pos, pk_set, collisions, rv, cs>>

\* lines 405-417: the table's entry in the primary-key map is None
RowSkipped ==
    /\ pc = "rows"
    /\ pos < RowsPerTable(CurrentTable.name)
    /\ \E r \in insert_statement(CurrentTable.name, CurrentTable.cols, config) :
         ~r.raised
    /\ SkipsRow(CurrentTable.name)
    /\ pos' = pos + 1
    /\ UNCHANGED <<config, table_definitions, primary_keys, number_of_rows,
                   output, pc, ti, pk_set, collisions, rv, cs>>

\* lines 405-422: the key tuple is in _pk_set; "pos += 1" changes a name the
\* for statement assigns again, so the iteration is consumed and nothing more
RowCollides ==
    /\ pc = "rows"
    /\ pos < RowsPerTable(CurrentTable.name)
    /\ CurrentTable.name \in DOMAIN primary_keys
    /\ ~SkipsRow(CurrentTable.name)
    /\ \E r \in insert_statement(CurrentTable.name, CurrentTable.cols, config) :
         /\ ~r.raised
         /\ KeyTuple(CurrentTable, primary_keys[CurrentTable.name].cols, r.values)
               \in pk_set
    /\ pos' = pos + 1
    /\ collisions' = [collisions EXCEPT ![CurrentTable.name] = @ + 1]
    /\ UNCHANGED <<config, table_definitions, primary_keys, number_of_rows,
                   output, pc, ti, pk_set, rv, cs>>

\* lines 405-426: the row is streamed, its key tuple added to _pk_set first
RowEmitted ==
    /\ pc = "rows"
    /\ pos < RowsPerTable(CurrentTable.name)
    /\ ~SkipsRow(CurrentTable.name)
    /\ \E r \in insert_statement(CurrentTable.name, CurrentTable.cols, config) :
         /\ ~r.raised
         /\ IF CurrentTable.name \in DOMAIN primary_keys
            THEN LET key == KeyTuple(CurrentTable,
                                     primary_keys[CurrentTable.name].cols, r.values)
                 IN  /\ key \notin pk_set
                     /\ pk_set' = PkSetAdd(pk_set, key)
                     /\ output' = Append(output,
                            Emitted("INSERT", CurrentTable.name, key, r.stmt))
            ELSE /\ pk_set' = pk_set
                 /\ output' = Append(output,
                        Emitted("INSERT", CurrentTable.name, <<>>, r.stmt))
    /\ pos' = pos + 1
    /\ UNCHANGED <<config, table_definitions, primary_keys, number_of_rows,
                   pc, ti, collisions, rv, cs>>

\* range(_rows_per_table) is exhausted: on to the next table
EndTable ==
    /\ pc = "rows"
    /\ pos = RowsPerTable(CurrentTable.name)
    /\ ti' = ti + 1
    /\ pc' = "insert"
    /\ UNCHANGED <<config, table_definitions, primary_keys, number_of_rows,
                   output, pos, pk_set, collisions, rv, cs>>

\* the loop over the tables is exhausted: stream_insert_statements returns
Finish ==
    /\ pc = "insert"
    /\ config.GENERATE_INSERT_STATEMENTS
    /\ ti > Len(table_definitions)
    /\ pc' = "done"
    /\ UNCHANGED <<config, table_definitions, primary_keys, number_of_rows,
                   output, ti, pos, pk_set, collisions, rv, cs>>

Next ==
    \/ SkipCreateStatements
    \/ StreamCreateStatement
    \/ SkipInsertStatements
    \/ BeginTable
    \/ RowRaises
    \/ RowSkipped
    \/ RowCollides
    \/ RowEmitted
    \/ EndTable
    \/ Finish

Spec == Init /\ [][Next]_vars

-----------------------------------------------------------------------------
(* Claims about the streamed statements, under Spec *)

TableNames == {table_definitions[i].name : i \in 1..Len(table_definitions)}

\* position of a table in the catalog
CatalogPos(name) ==
    CHOOSE i \in 1..Len(table_definitions) : table_definitions[i].name = name

\* positions of the output that hold an INSERT statement of the table
InsertsOf(name) ==
    {i \in 1..Len(output) : output[i].kind = "INSERT" /\ output[i].table = name}

\* the table has a column list in the primary-key map
HasPkList(name) ==
    name \in DOMAIN primary_keys /\ ~primary_keys[name].is_none

\* the table's entry in the primary-key map is None
HasPkNone(name) ==
    name \in DOMAIN primary_keys /\ primary_keys[name].is_none

\* min(max_rows_per_table, requested) or, without a maximum, the requested
TargetRows(name) ==
    IF IsNone(config.MAX_ROWS_PER_TABLE) THEN number_of_rows[name]
    ELSE IF number_of_rows[name] <= Val(config.MAX_ROWS_PER_TABLE)
         THEN number_of_rows[name]
         ELSE Val(config.MAX_ROWS_PER_TABLE)

\* the tables whose range loop in stream_insert_statements has ended
FinishedTables ==
    IF ~config.GENERATE_INSERT_STATEMENTS \/ pc = "create" THEN {}
    ELSE IF pc = "done" THEN TableNames
    ELSE {TableOrder(table_definitions)[i].name : i \in 1..(ti - 1)}

\* the key tuples the rows of a table can have
KeyDomain(name) ==
    LET t == table_definitions[CatalogPos(name)]
    IN  {KeyTuple(t, primary_keys[name].cols, r.values) :
            r \in {x \in insert_statement(name, t.cols, config) : ~x.raised}}

\* C1: the key tuples of the INSERT statements streamed for a table with a
\* primary-key column list are pairwise distinct, and while the table is
\* generated _pk_set holds exactly the key tuples streamed for it.
C1_DistinctKeys ==
    /\ \A i, j \in 1..Len(output) :
         (/\ i < j
          /\ output[i].kind = "INSERT" /\ output[j].kind = "INSERT"
          /\ output[i].table = output[j].table
          /\ HasPkList(output[i].table))
            => /\ output[i].key # output[j].key
               /\ output[i].text # output[j].text
    /\ (pc = "rows" /\ HasPkList(CurrentTable.name))
         => pk_set = {output[i].key : i \in InsertsOf(CurrentTable.name)}

\* two rows with different keys were streamed for a table, another row
\* collided
C1_Witness ==
    \E n \in TableNames :
        /\ HasPkList(n)
        /\ collisions[n] > 0
        /\ Cardinality(InsertsOf(n)) >= 2

\* C2: whenever the generation of a table with a primary-key column list has
\* finished, the number of INSERT statements streamed for it is its target
\* row count, whatever collisions happened.
C2_RetriesKeepRowCount ==
    \A n \in FinishedTables :
        HasPkList(n) => Cardinality(InsertsOf(n)) = TargetRows(n)

\* C3 as stated: no table gets more INSERT statements than its target row
\* count, and a finished table none of whose key tuples collided gets
\* exactly that many.
C3_ExactRowCount ==
    \A n \in TableNames :
        /\ Cardinality(InsertsOf(n)) <= TargetRows(n)
        /\ (n \in FinishedTables /\ collisions[n] = 0)
              => Cardinality(InsertsOf(n)) = TargetRows(n)

\* C3 amended: the same for the tables whose entry in the primary-key map is
\* not None.
C3_ExactRowCountUnlessNone ==
    \A n \in TableNames :
        /\ Cardinality(InsertsOf(n)) <= TargetRows(n)
        /\ (n \in FinishedTables /\ collisions[n] = 0 /\ ~HasPkNone(n))
              => Cardinality(InsertsOf(n)) = TargetRows(n)

\* 3 rows are requested of a table, the maximum is 2, and the finished table
\* has 2 INSERT statements
C3_Witness ==
    \E n \in FinishedTables :
        /\ number_of_rows[n] = 3
        /\ config.MAX_ROWS_PER_TABLE = Some(2)
        /\ HasPkList(n)
        /\ collisions[n] = 0
        /\ Cardinality(InsertsOf(n)) = 2

\* C4: no CREATE statement follows an INSERT statement, the CREATE
\* statements are one per table in catalog order, and no INSERT statement of
\* a table follows one of a table that is later in the catalog.
C4_CreateThenInsertInCatalogOrder ==
    /\ \A i, j \in 1..Len(output) :
         i < j =>
            /\ ~(output[i].kind = "INSERT" /\ output[j].kind = "CREATE")
            /\ (output[i].kind = "CREATE" /\ output[j].kind = "CREATE")
                  => CatalogPos(output[i].table) < CatalogPos(output[j].table)
            /\ (output[i].kind = "INSERT" /\ output[j].kind = "INSERT")
                  => CatalogPos(output[i].table) <= CatalogPos(output[j].table)
    /\ (pc # "create" /\ config.GENERATE_CREATE_STATEMENTS)
         => \A k \in 1..Len(table_definitions) :
                /\ k <= Len(output)
                /\ output[k].kind = "CREATE"
                /\ output[k].table = table_definitions[k].name

\* the run is over: two CREATE statements, then INSERT statements of both
\* tables
C4_Witness ==
    /\ pc = "done"
    /\ Len(output) >= 4
    /\ output[2].kind = "CREATE"
    /\ \A n \in TableNames : InsertsOf(n) # {}

\* C7: a table whose entry in the primary-key map is None gets no INSERT
\* statement; the run does not raise unless a column has a type that
\* random_value does not match; the finished tables with no entry in the map
\* get all their rows.
C7_NoneEntrySkipsTable ==
    /\ \A n \in TableNames : HasPkNone(n) => InsertsOf(n) = {}
    /\ pc = "raised" =>
         \E i \in 1..Len(CurrentTable.cols) :
            CurrentTable.cols[i].data_type \notin SupportedTypes
    /\ \A n \in FinishedTables :
         n \notin DOMAIN primary_keys => Cardinality(InsertsOf(n)) = TargetRows(n)

\* the run is over; the first table, of which rows were requested, has a None
\* entry and the second table has its rows
C7_Witness ==
    /\ pc = "done"
    /\ HasPkNone(table_definitions[1].name)
    /\ TargetRows(table_definitions[1].name) > 0
    /\ table_definitions[2].name \notin DOMAIN primary_keys
    /\ InsertsOf(table_definitions[2].name) # {}

\* C10: the retry after a collision is unbounded, so the generation of a
\* table with a primary-key column list that has fewer possible key tuples
\* than its target row count does not finish: the target number of distinct
\* key tuples cannot be reached.
C10_SmallKeyDomainNeverFinishes ==
    \A n \in TableNames :
        (HasPkList(n) /\ Cardinality(KeyDomain(n)) < TargetRows(n))
            => n \notin FinishedTables

====
